---- MODULE Spec2Model ----
(***************************************************************************)
(* markdown-inspector: the heading scanner (parse_headings), the section   *)
(* locator (find_section), the range and subsection engine                 *)
(* (get_section_range, get_subsections, get_first_subsection), the         *)
(* extractors (extract_section, extract_section_intro) and the read        *)
(* command of the mdi binary.                                              *)
(*                                                                         *)
(* A string is a sequence of one-character strings.  A Heading is a record *)
(* [line_number, level, text].  An Option is NONE or Some(v).              *)
(* The variable lines holds content.lines(), the lines the scanner         *)
(* iterates over; idx counts the lines the loop has consumed.              *)
(***************************************************************************)
EXTENDS Integers, Sequences, FiniteSets, TLC

VARIABLES content, lines, pc, idx, in_code_block, headings, call

vars == <<content, lines, pc, idx, in_code_block, headings, call>>

\* Option<T>
NONE == <<>>
Some(v) == <<v>>
IsSome(o) == o # <<>>
Unwrap(o) == o[1]

\* ------------------------------------------------------------------------
\* Bounds of the model
\* ------------------------------------------------------------------------
MaxCtxLines == 2
MaxLineLen == 3
MaxHashes == 7
MaxLines == 3

\* ------------------------------------------------------------------------
\* The character U+0060 (a string constant cannot hold it)
BT == "U+0060"

\* ------------------------------------------------------------------------
\* std string functions, as the code uses them
\* ------------------------------------------------------------------------
IsWhitespace(c) == c \in {" ", "\t", "\n", "\r"}

RECURSIVE trim_start(_)
trim_start(s) ==
    IF s # <<>> /\ IsWhitespace(Head(s)) THEN trim_start(Tail(s)) ELSE s

RECURSIVE trim_end(_)
trim_end(s) ==
    IF s # <<>> /\ IsWhitespace(s[Len(s)])
    THEN trim_end(SubSeq(s, 1, Len(s) - 1))
    ELSE s

trim(s) == trim_end(trim_start(s))

starts_with(s, p) == Len(s) >= Len(p) /\ SubSeq(s, 1, Len(p)) = p

\* Option<&str>: the rest after the prefix, or NONE
strip_prefix(s, p) ==
    IF starts_with(s, p) THEN Some(SubSeq(s, Len(p) + 1, Len(s))) ELSE NONE

\* str::lines(): split after every "\n"; a line loses its "\n" and then one
\* "\r" before it; what follows the last "\n" is a line only if non-empty.
StripLineEnd(seg) ==
    IF seg # <<>> /\ seg[Len(seg)] = "\r" THEN SubSeq(seg, 1, Len(seg) - 1) ELSE seg

RECURSIVE LinesFrom(_, _, _)
LinesFrom(s, i, cur) ==
    IF i > Len(s) THEN (IF cur = <<>> THEN <<>> ELSE <<cur>>)
    ELSE IF s[i] = "\n" THEN <<StripLineEnd(cur)>> \o LinesFrom(s, i + 1, <<>>)
    ELSE LinesFrom(s, i + 1, Append(cur, s[i]))

str_lines(s) == LinesFrom(s, 1, <<>>)

\* [&str]::join(sep)
RECURSIVE join(_, _)
join(ls, sep) ==
    IF ls = <<>> THEN <<>>
    ELSE IF Len(ls) = 1 THEN ls[1]
    ELSE ls[1] \o sep \o join(Tail(ls), sep)

\* ------------------------------------------------------------------------
\* parse_headings: one iteration of the loop over content.lines()
\* ------------------------------------------------------------------------
\* a scanner that knows only the fence of three U+0060
IsFenceMarker_OneKind(trimmed) == starts_with(trimmed, <<BT, BT, BT>>)

IsFenceMarker(trimmed) ==
    starts_with(trimmed, <<BT, BT, BT>>) \/ starts_with(trimmed, <<"~", "~", "~">>)

\* the loop without its break at level 6
RECURSIVE HashLoop_NoCap(_, _)
HashLoop_NoCap(level, remaining) ==
    IF IsSome(strip_prefix(remaining, <<"#">>))
    THEN HashLoop_NoCap(level + 1, Unwrap(strip_prefix(remaining, <<"#">>)))
    ELSE [level |-> level, remaining |-> remaining]

\* the loop: while let Some(r) = remaining.strip_prefix('#')
RECURSIVE HashLoop(_, _)
HashLoop(level, remaining) ==
    IF IsSome(strip_prefix(remaining, <<"#">>))
    THEN LET l == level + 1
             r == Unwrap(strip_prefix(remaining, <<"#">>))
         IN  IF l >= 6 THEN [level |-> l, remaining |-> r] ELSE HashLoop(l, r)
    ELSE [level |-> level, remaining |-> remaining]

\* a scanner that does not ask for the space after the '#'s
HeadingOfLine_NoSpace(line_number, trimmed) ==
    IF ~IsSome(strip_prefix(trimmed, <<"#">>)) THEN NONE
    ELSE LET st == HashLoop(1, Unwrap(strip_prefix(trimmed, <<"#">>)))
         IN  Some([line_number |-> line_number, level |-> st.level,
                   text |-> trim(st.remaining)])

\* the heading pushed for a line outside a code block, or NONE
HeadingOfLine(line_number, trimmed) ==
    IF ~IsSome(strip_prefix(trimmed, <<"#">>)) THEN NONE
    ELSE LET st == HashLoop(1, Unwrap(strip_prefix(trimmed, <<"#">>)))
             text == strip_prefix(st.remaining, <<" ">>)
         IN  IF ~IsSome(text) THEN NONE
             ELSE Some([line_number |-> line_number, level |-> st.level,
                        text |-> trim(Unwrap(text))])

ScanLine ==
    /\ pc = "scan"
    /\ idx < Len(lines)
    /\ LET line_number == idx + 1
           line == lines[line_number]
           trimmed == trim_start(line)
       IN  /\ idx' = idx + 1
           /\ IF IsFenceMarker(trimmed)
              THEN /\ in_code_block' = ~in_code_block
                   /\ UNCHANGED headings
              ELSE /\ UNCHANGED in_code_block
                   /\ IF in_code_block \/ ~IsSome(HeadingOfLine(line_number, trimmed))
                      THEN UNCHANGED headings
                      ELSE headings' =
                             Append(headings, Unwrap(HeadingOfLine(line_number, trimmed)))
    /\ UNCHANGED <<content, lines, pc, call>>

\* the loop is over: parse_headings returns `headings`
ScanDone ==
    /\ pc = "scan"
    /\ idx = Len(lines)
    /\ pc' = "ready"
    /\ UNCHANGED <<content, lines, idx, in_code_block, headings, call>>

\* ------------------------------------------------------------------------
\* Inputs of the scanner
\* ------------------------------------------------------------------------
RECURSIVE SeqsUpTo(_, _)
SeqsUpTo(S, n) ==
    IF n = 0 THEN {<<>>}
    ELSE LET shorter == SeqsUpTo(S, n - 1)
         IN  shorter \cup {Append(s, x) : s \in {t \in shorter : Len(t) = n - 1}, x \in S}

RECURSIVE Hashes(_)
Hashes(n) == IF n = 0 THEN <<>> ELSE <<"#">> \o Hashes(n - 1)

\* lines around the probe: fences of both kinds, a heading, prose
CtxLines ==
    { <<BT, BT, BT>>, <<" ", "~", "~", "~", "a">>, <<"#", " ", "a">>, <<"a">> }

\* every short line over the alphabet, and the family ws* #^n suffix
ProbeLines ==
    SeqsUpTo({"#", " ", "a"}, MaxLineLen)
    \cup { pre \o Hashes(n) \o suf :
             pre \in {<<>>, <<"\t", " ">>},
             n \in 1..MaxHashes,
             suf \in { <<>>, <<"a">>, <<"\t", "a">>, <<" ", "a">>,
                       <<" ", " ", "a", " ", "#", " ">>, <<" ">> } }
    \cup { <<BT, BT, BT, BT, "#", " ", "a">>, <<"~", "~", BT>>, <<"a", BT, BT, BT>> }

\* the text of a document: its lines, each ended by eol but for the last,
\* which is ended only when `final`
Document(ls, eol, final) ==
    IF ls = <<>> THEN <<>> ELSE join(ls, eol) \o (IF final THEN eol ELSE <<>>)

LF == <<"\n">>
CRLF == <<"\r", "\n">>
Styles == { [eol |-> LF, final |-> FALSE], [eol |-> CRLF, final |-> TRUE] }

ScanDocuments ==
    { Document(ctx \o <<p>> \o post, st.eol, st.final) :
        ctx \in SeqsUpTo(CtxLines, MaxCtxLines), p \in ProbeLines,
        post \in {<<>>, <<<<"#", "#", " ", "b">>>>}, st \in Styles }
    \cup {<<>>}

Start(docs) ==
    /\ content \in docs
    /\ lines = str_lines(content)
    /\ pc = "scan"
    /\ idx = 0
    /\ in_code_block = FALSE
    /\ headings = <<>>
    /\ call = [op |-> "none"]

InitScan == Start(ScanDocuments)

NextScan == ScanLine \/ ScanDone

SpecScan == InitScan /\ [][NextScan]_vars


\* ------------------------------------------------------------------------
\* More of std, for the locator and the formatter
\* ------------------------------------------------------------------------
Digits == <<"0", "1", "2", "3", "4", "5", "6", "7", "8", "9">>

IsDigit(c) == \E d \in 1..10 : Digits[d] = c

DigitValue(c) == (CHOOSE d \in 1..10 : Digits[d] = c) - 1

RECURSIVE StripZeros(_)
StripZeros(ds) == IF ds # <<>> /\ Head(ds) = "0" THEN StripZeros(Tail(ds)) ELSE ds

\* usize::MAX of a 64-bit target, in decimal
UsizeMaxDigits ==
    <<"1", "8", "4", "4", "6", "7", "4", "4", "0", "7",
      "3", "7", "0", "9", "5", "5", "1", "6", "1", "5">>

RECURSIVE DigitsGreater(_, _)
DigitsGreater(a, b) ==
    IF a = <<>> THEN FALSE
    ELSE IF DigitValue(Head(a)) # DigitValue(Head(b))
         THEN DigitValue(Head(a)) > DigitValue(Head(b))
         ELSE DigitsGreater(Tail(a), Tail(b))

\* the checked multiply-and-add of the parse overflows
Overflows(ds) ==
    LET sig == StripZeros(ds)
    IN  \/ Len(sig) > Len(UsizeMaxDigits)
        \/ Len(sig) = Len(UsizeMaxDigits) /\ DigitsGreater(sig, UsizeMaxDigits)

RECURSIVE DecimalValue(_, _)
DecimalValue(ds, acc) ==
    IF ds = <<>> THEN acc ELSE DecimalValue(Tail(ds), acc * 10 + DigitValue(Head(ds)))

\* str::parse::<usize>(): an optional '+', then one or more decimal digits,
\* and no overflow; Some(n) for Ok(n), NONE for Err
parse_usize(src) ==
    IF src = <<>> THEN NONE
    ELSE LET ds == IF Head(src) = "+" THEN Tail(src) ELSE src
         IN  IF ds = <<>> \/ (\E i \in 1..Len(ds) : ~IsDigit(ds[i])) \/ Overflows(ds)
             THEN NONE
             ELSE Some(DecimalValue(ds, 0))

UpperCase ==
    <<"A", "B", "C", "D", "E", "F", "G", "H", "I", "J", "K", "L", "M",
      "N", "O", "P", "Q", "R", "S", "T", "U", "V", "W", "X", "Y", "Z">>
LowerCase ==
    <<"a", "b", "c", "d", "e", "f", "g", "h", "i", "j", "k", "l", "m",
      "n", "o", "p", "q", "r", "s", "t", "u", "v", "w", "x", "y", "z">>

char_to_lowercase(c) ==
    IF \E i \in 1..26 : UpperCase[i] = c
    THEN LowerCase[CHOOSE i \in 1..26 : UpperCase[i] = c]
    ELSE c

to_lowercase(s) == [i \in 1..Len(s) |-> char_to_lowercase(s[i])]

contains(s, p) == \E i \in 0..(Len(s) - Len(p)) : SubSeq(s, i + 1, i + Len(p)) = p

saturating_sub(a, b) == IF a >= b THEN a - b ELSE 0

RECURSIVE ToDecimal(_)
ToDecimal(n) ==
    IF n < 10 THEN <<Digits[n + 1]>> ELSE Append(ToDecimal(n \div 10), Digits[(n % 10) + 1])

RECURSIVE repeat(_, _)
repeat(s, n) == IF n = 0 THEN <<>> ELSE s \o repeat(s, n - 1)

\* Iterator::find over a heading list: the first heading among those the
\* test accepts (Accepted holds their indices)
FindFirst(hs, Accepted) ==
    IF Accepted # {}
    THEN Some(hs[CHOOSE k \in Accepted : \A j \in Accepted : k <= j])
    ELSE NONE

\* &lines[start_idx..end_idx] joined by "\n"; slicing panics when the range
\* is decreasing or ends past the vector
SliceJoin(ls, start_idx, end_idx) ==
    IF start_idx > end_idx \/ end_idx > Len(ls)
    THEN [panicked |-> TRUE, value |-> <<>>]
    ELSE [panicked |-> FALSE, value |-> join(SubSeq(ls, start_idx + 1, end_idx), <<"\n">>)]

\* ------------------------------------------------------------------------
\* The library functions
\* ------------------------------------------------------------------------
\* a locator that tries the exact text before the line number
find_section_TextFirst(hs, section) ==
    LET Exact == {k \in 1..Len(hs) : hs[k].text = section}
        AtLine == {k \in 1..Len(hs) : hs[k].line_number = Unwrap(parse_usize(section))}
        section_lower == to_lowercase(section)
        Partial == {k \in 1..Len(hs) : contains(to_lowercase(hs[k].text), section_lower)}
    IN  IF IsSome(FindFirst(hs, Exact)) THEN FindFirst(hs, Exact)
        ELSE IF IsSome(parse_usize(section)) THEN FindFirst(hs, AtLine)
        ELSE FindFirst(hs, Partial)

\* a locator without the exact-match step
find_section_PartialOnly(hs, section) ==
    IF IsSome(parse_usize(section))
    THEN LET line_num == Unwrap(parse_usize(section))
             AtLine == {k \in 1..Len(hs) : hs[k].line_number = line_num}
         IN  FindFirst(hs, AtLine)
    ELSE LET section_lower == to_lowercase(section)
             Partial == {k \in 1..Len(hs) : contains(to_lowercase(hs[k].text), section_lower)}
         IN  FindFirst(hs, Partial)

find_section(hs, section) ==
    IF IsSome(parse_usize(section))
    THEN LET line_num == Unwrap(parse_usize(section))
             AtLine == {k \in 1..Len(hs) : hs[k].line_number = line_num}
         IN  FindFirst(hs, AtLine)
    ELSE LET Exact == {k \in 1..Len(hs) : hs[k].text = section}
             section_lower == to_lowercase(section)
             Partial == {k \in 1..Len(hs) : contains(to_lowercase(hs[k].text), section_lower)}
         IN  IF IsSome(FindFirst(hs, Exact)) THEN FindFirst(hs, Exact)
             ELSE FindFirst(hs, Partial)

\* a range that only a shallower heading ends
get_section_range_Shallower(hs, heading) ==
    LET start == heading.line_number
        Ends == {k \in 1..Len(hs) : hs[k].line_number > start /\ hs[k].level < heading.level}
        next == FindFirst(hs, Ends)
    IN  [start |-> start,
         end |-> IF IsSome(next) THEN Some(Unwrap(next).line_number) ELSE NONE]

get_section_range(hs, heading) ==
    LET start == heading.line_number
        Ends == {k \in 1..Len(hs) : hs[k].line_number > start /\ hs[k].level <= heading.level}
        next == FindFirst(hs, Ends)
    IN  [start |-> start,
         end |-> IF IsSome(next) THEN Some(Unwrap(next).line_number) ELSE NONE]

\* an extraction that takes end as an inclusive line
extract_section_InclusiveEnd(c, start, end) ==
    LET ls == str_lines(c)
        start_idx == saturating_sub(start, 1)
        end_idx == IF IsSome(end) THEN Unwrap(end) ELSE Len(ls)
    IN  SliceJoin(ls, start_idx, end_idx)

extract_section(c, start, end) ==
    LET ls == str_lines(c)
        start_idx == saturating_sub(start, 1)
        end_idx == IF IsSome(end) THEN saturating_sub(Unwrap(end), 1) ELSE Len(ls)
    IN  SliceJoin(ls, start_idx, end_idx)

format_outline_entry(heading) ==
    LET indent == repeat(<<" ", " ">>, heading.level - 1)
        num == ToDecimal(heading.line_number)
    IN  repeat(<<" ">>, saturating_sub(4, Len(num))) \o num \o <<":">> \o indent
          \o heading.text

\* an enumeration that leaves out the heading on line start
get_subsections_AfterStart(hs, start, end, max_depth) ==
    LET Keep(h) ==
            /\ h.line_number > start
            /\ (~IsSome(end) \/ h.line_number < Unwrap(end))
            /\ h.level <= max_depth
    IN  SelectSeq(hs, Keep)

get_subsections(hs, start, end, max_depth) ==
    LET Keep(h) ==
            /\ h.line_number >= start
            /\ (~IsSome(end) \/ h.line_number < Unwrap(end))
            /\ h.level <= max_depth
    IN  SelectSeq(hs, Keep)

get_first_subsection(hs, heading) ==
    LET start == heading.line_number
        Deeper == {k \in 1..Len(hs) : hs[k].line_number > start /\ hs[k].level > heading.level}
    IN  FindFirst(hs, Deeper)

extract_section_intro(c, heading, first_subsection, section_end) ==
    LET ls == str_lines(c)
        start_idx == saturating_sub(heading.line_number, 1)
        end_idx ==
            IF IsSome(first_subsection)
            THEN saturating_sub(Unwrap(first_subsection).line_number, 1)
            ELSE IF IsSome(section_end) THEN saturating_sub(Unwrap(section_end), 1)
            ELSE Len(ls)
    IN  SliceJoin(ls, start_idx, end_idx)


\* ------------------------------------------------------------------------
\* One call of a library function on a parsed document; call records the
\* call and what it returned
\* ------------------------------------------------------------------------
FindSection(section) ==
    /\ pc = "ready"
    /\ call' = [op |-> "find_section", section |-> section,
                result |-> find_section(headings, section)]
    /\ pc' = "returned"
    /\ UNCHANGED <<content, lines, idx, in_code_block, headings>>

GetSectionRange(k) ==
    /\ pc = "ready"
    /\ k \in 1..Len(headings)
    /\ call' = [op |-> "get_section_range", heading |-> headings[k],
                result |-> get_section_range(headings, headings[k])]
    /\ pc' = "returned"
    /\ UNCHANGED <<content, lines, idx, in_code_block, headings>>

GetFirstSubsection(k) ==
    /\ pc = "ready"
    /\ k \in 1..Len(headings)
    /\ call' = [op |-> "get_first_subsection", heading |-> headings[k],
                result |-> get_first_subsection(headings, headings[k])]
    /\ pc' = "returned"
    /\ UNCHANGED <<content, lines, idx, in_code_block, headings>>

GetSubsections(start, end, max_depth) ==
    /\ pc = "ready"
    /\ call' = [op |-> "get_subsections", start |-> start, end |-> end,
                max_depth |-> max_depth,
                result |-> get_subsections(headings, start, end, max_depth)]
    /\ pc' = "returned"
    /\ UNCHANGED <<content, lines, idx, in_code_block, headings>>

ExtractSection(start, end) ==
    /\ pc = "ready"
    /\ call' = [op |-> "extract_section", start |-> start, end |-> end,
                result |-> extract_section(content, start, end)]
    /\ pc' = "returned"
    /\ UNCHANGED <<content, lines, idx, in_code_block, headings>>

\* ------------------------------------------------------------------------
\* main: the read command, after the document has been parsed
\* ------------------------------------------------------------------------
\* what print_outline writes: one entry and a newline per heading in depth
RECURSIVE print_outline(_, _)
print_outline(hs, max_depth) ==
    IF hs = <<>> THEN <<>>
    ELSE (IF Head(hs).level <= max_depth
          THEN format_outline_entry(Head(hs)) \o <<"\n">>
          ELSE <<>>) \o print_outline(Tail(hs), max_depth)

\* print!("{}", text), then println!() unless text ends with a newline
PrintWithNewline(text) ==
    IF text # <<>> /\ text[Len(text)] = "\n" THEN text ELSE text \o <<"\n">>

NoResult == [panicked |-> FALSE, value |-> <<>>]

ReadOutcome(section, outline, summary, depth) ==
    LET found == find_section(headings, section)
        base == [op |-> "read", section |-> section, outline |-> outline,
                 summary |-> summary, depth |-> depth, heading |-> found,
                 not_found |-> ~IsSome(found), range |-> [start |-> 0, end |-> NONE],
                 first_sub |-> NONE, intro |-> NoResult, section_content |-> NoResult,
                 listed |-> <<>>, panicked |-> FALSE, stdout |-> <<>>]
    IN  IF ~IsSome(found) THEN base
        ELSE
        LET heading == Unwrap(found)
            range == get_section_range(headings, heading)
            start == range.start
            end == range.end
            first_sub == get_first_subsection(headings, heading)
            intro == extract_section_intro(content, heading, first_sub, end)
            AfterHeading(h) == h.line_number > heading.line_number
            subsections ==
                IF summary
                THEN SelectSeq(get_subsections(headings, start, end, depth), AfterHeading)
                ELSE get_subsections(headings, start, end, depth)
            section_content == extract_section(content, start, end)
        IN  IF summary THEN
                IF intro.panicked
                THEN [base EXCEPT !.range = range, !.first_sub = first_sub,
                                  !.intro = intro, !.panicked = TRUE]
                ELSE [base EXCEPT !.range = range, !.first_sub = first_sub,
                                  !.intro = intro,
                                  !.listed = IF IsSome(first_sub)
                                             THEN print_outline(subsections, depth)
                                             ELSE <<>>,
                                  !.stdout = PrintWithNewline(intro.value)
                                      \o (IF IsSome(first_sub)
                                          THEN <<"\n">> \o print_outline(subsections, depth)
                                          ELSE <<>>)]
            ELSE IF outline THEN
                [base EXCEPT !.range = range,
                             !.listed = print_outline(subsections, depth),
                             !.stdout = print_outline(subsections, depth)]
            ELSE IF section_content.panicked
                THEN [base EXCEPT !.range = range, !.section_content = section_content,
                                  !.panicked = TRUE]
                ELSE [base EXCEPT !.range = range, !.section_content = section_content,
                                  !.stdout = PrintWithNewline(section_content.value)]

Read(section, outline, summary, depth) ==
    /\ pc = "ready"
    /\ call' = ReadOutcome(section, outline, summary, depth)
    /\ pc' = "returned"
    /\ UNCHANGED <<content, lines, idx, in_code_block, headings>>

\* ------------------------------------------------------------------------
\* Inputs of the library and of read
\* ------------------------------------------------------------------------
\* headings of three levels (one whose text is a number, one whose text
\* contains another's), a fence and prose
LibLines ==
    { <<"#", " ", "2">>, <<"#", "#", " ", "a", "b">>, <<"#", "#", " ", "a">>,
      <<"#", "#", "#", " ", "A">>, <<BT, BT, BT>>, <<"a">> }

LibDocuments ==
    { Document(ls, st.eol, st.final) : ls \in SeqsUpTo(LibLines, MaxLines), st \in Styles }

\* 2^64, one more than usize::MAX
TooBig ==
    <<"1", "8", "4", "4", "6", "7", "4", "4", "0", "7",
      "3", "7", "0", "9", "5", "5", "1", "6", "1", "6">>

Queries ==
    { ToDecimal(n) : n \in 0..(MaxLines + 1) }
    \cup { <<"+", "2">>, <<"0", "2">>, <<"-", "1">>, <<>>, <<"a">>, <<"A">>,
           <<"A", "b">>, <<"2", " ">>, TooBig }

Depths == {1, 2, 6}

LineArgs == 0..(MaxLines + 2)

InitLib == Start(LibDocuments)

NextLib ==
    \/ ScanLine
    \/ ScanDone
    \/ \E q \in Queries : FindSection(q)
    \/ \E k \in 1..MaxLines : GetSectionRange(k)
    \/ \E k \in 1..MaxLines : GetFirstSubsection(k)
    \/ \E start \in LineArgs, end \in {NONE} \cup {Some(e) : e \in LineArgs} :
          ExtractSection(start, end)

SpecLib == InitLib /\ [][NextLib]_vars

NextRead ==
    \/ ScanLine
    \/ ScanDone
    \/ \E start \in LineArgs, end \in {NONE} \cup {Some(e) : e \in LineArgs},
          max_depth \in Depths : GetSubsections(start, end, max_depth)
    \/ \E q \in Queries, outline \in BOOLEAN, summary \in BOOLEAN, depth \in Depths :
          Read(q, outline, summary, depth)

SpecRead == InitLib /\ [][NextRead]_vars

\* ------------------------------------------------------------------------
\* The scanner's claims.  The shapes below are read off the text of the
\* document, not off the scanner's functions.
\* ------------------------------------------------------------------------
Trimmed(i) == trim_start(lines[i])

RECURSIVE LeadingHashes(_)
LeadingHashes(t) ==
    IF t # <<>> /\ Head(t) = "#" THEN 1 + LeadingHashes(Tail(t)) ELSE 0

FenceShaped(i) ==
    LET t == Trimmed(i)
    IN  /\ Len(t) >= 3
        /\ \/ \A k \in 1..3 : t[k] = BT
           \/ \A k \in 1..3 : t[k] = "~"

FencesBefore(i) == Cardinality({j \in 1..(i - 1) : FenceShaped(j)})

OutsideFence(i) == ~FenceShaped(i) /\ FencesBefore(i) % 2 = 0

\* one to six '#', then a space
HeadingShaped(i) ==
    LET t == Trimmed(i)
        n == LeadingHashes(t)
    IN  n \in 1..6 /\ Len(t) > n /\ t[n + 1] = " "

Emitted(i) == \E k \in 1..Len(headings) : headings[k].line_number = i

Min(a, b) == IF a <= b THEN a ELSE b

\* C1: scanning in order, every fence-marker line toggles in_fence and emits
\* no heading; a heading-shaped line is emitted only if the number of
\* fence-marker lines before it is even; after an unmatched opening fence no
\* later line produces a heading.
C1_FenceSuppression ==
    /\ in_code_block = (Cardinality({j \in 1..idx : FenceShaped(j)}) % 2 = 1)
    /\ \A i \in 1..idx :
         /\ FenceShaped(i) => ~Emitted(i)
         /\ Emitted(i) => FencesBefore(i) % 2 = 0
         /\ ( /\ FenceShaped(i)
              /\ FencesBefore(i) % 2 = 0
              /\ \A j \in (i + 1)..idx : ~FenceShaped(j) )
            => \A j \in (i + 1)..idx : ~Emitted(j)

\* a heading-shaped line between an opening and a closing fence was
\* skipped, and a heading after the closing fence was emitted
C1_Witness ==
    /\ pc = "ready"
    /\ \E i, j, k, m \in 1..idx :
         /\ i < j /\ j < k /\ k < m
         /\ FenceShaped(i) /\ FencesBefore(i) = 0
         /\ HeadingShaped(j) /\ ~Emitted(j)
         /\ FenceShaped(k)
         /\ Emitted(m)

\* the run of '#' of a line is followed by something other than a space
NoSpaceAfterHashes(i) ==
    LET t == Trimmed(i)
        n == LeadingHashes(t)
    IN  n >= 1 /\ (Len(t) = n \/ t[n + 1] # " ")

\* the line is '#'s, a space, then a non-whitespace character
SpaceAfterHashes(i) ==
    LET t == Trimmed(i)
        n == LeadingHashes(t)
    IN  n >= 1 /\ Len(t) >= n + 2 /\ t[n + 1] = " " /\ ~IsWhitespace(t[n + 2])

\* C4 as stated: outside a fence, (a) a run of '#' not followed by a space
\* emits nothing, and (b) a run of '#' of any length followed by a space and
\* a non-whitespace character emits a heading.
C4_SpaceRequirement_AnyRun ==
    \A i \in 1..idx :
        OutsideFence(i) =>
            /\ NoSpaceAfterHashes(i) => ~Emitted(i)
            /\ SpaceAfterHashes(i) => Emitted(i)

\* C4 amended: (b) holds for runs of one to six '#'; a run of seven or more
\* '#' emits nothing, whatever follows it.
C4_SpaceRequirement ==
    \A i \in 1..idx :
        OutsideFence(i) =>
            /\ NoSpaceAfterHashes(i) => ~Emitted(i)
            /\ (SpaceAfterHashes(i) /\ LeadingHashes(Trimmed(i)) <= 6) => Emitted(i)
            /\ LeadingHashes(Trimmed(i)) >= 7 => ~Emitted(i)

\* a line of six '#' after leading whitespace was emitted, outside a fence
C4_Witness ==
    \E i \in 1..idx :
        /\ OutsideFence(i)
        /\ lines[i] # Trimmed(i)
        /\ SpaceAfterHashes(i)
        /\ LeadingHashes(Trimmed(i)) = 6
        /\ Emitted(i)

\* C10: at every step of the scan and in the result, the headings have
\* strictly increasing line numbers, each a 1-indexed line of the input;
\* every level is in 1..6 and is the count of leading '#' of its line,
\* capped at 6; empty input yields the empty list.
C10_WellFormed ==
    /\ \A k \in 1..Len(headings) :
         /\ headings[k].line_number \in 1..Len(lines)
         /\ headings[k].level \in 1..6
         /\ headings[k].level =
              Min(LeadingHashes(Trimmed(headings[k].line_number)), 6)
    /\ \A k \in 1..(Len(headings) - 1) :
         headings[k].line_number < headings[k + 1].line_number
    /\ content = <<>> => headings = <<>>

\* a finished scan with three headings, one of them of level 6
C10_Witness ==
    /\ pc = "ready"
    /\ Len(headings) >= 3
    /\ \E k \in 1..Len(headings) : headings[k].level = 6

\* ------------------------------------------------------------------------
\* The claims about the locator, the ranges and the extractors
\* ------------------------------------------------------------------------
HeadingSet == {headings[k] : k \in 1..Len(headings)}

MinOf(S) == CHOOSE x \in S : \A y \in S : x <= y

\* the heading of hs on the least line among those the set holds
Earliest(S) == CHOOSE h \in S : \A g \in S : h.line_number <= g.line_number

C3_LocatorPrecedence ==
    (call.op = "find_section" /\ IsSome(parse_usize(call.section))) =>
        LET n == Unwrap(parse_usize(call.section))
            OnLine == {h \in HeadingSet : h.line_number = n}
        IN  IF OnLine = {} THEN call.result = NONE
            ELSE IsSome(call.result) /\ Unwrap(call.result) \in OnLine

\* the query is a number, a heading's text equals it, and the heading
\* returned is another one, found by its line
C3_Witness ==
    /\ call.op = "find_section"
    /\ IsSome(parse_usize(call.section))
    /\ \E h \in HeadingSet : h.text = call.section
    /\ IsSome(call.result)
    /\ Unwrap(call.result).text # call.section

\* C8: for a query that does not parse as an integer: the first heading
\* whose text equals the query, if there is one, even when an earlier
\* heading contains it; otherwise the first heading whose lowercased text
\* contains the lowercased query; otherwise nothing.
C8_TextResolution ==
    (call.op = "find_section" /\ ~IsSome(parse_usize(call.section))) =>
        LET q == call.section
            ExactSet == {h \in HeadingSet : h.text = q}
            PartialSet == {h \in HeadingSet :
                             contains(to_lowercase(h.text), to_lowercase(q))}
        IN  IF ExactSet # {} THEN call.result = Some(Earliest(ExactSet))
            ELSE IF PartialSet # {} THEN call.result = Some(Earliest(PartialSet))
            ELSE call.result = NONE

\* the heading returned equals the query and comes after a heading that
\* only contains it
C8_Witness ==
    /\ call.op = "find_section"
    /\ ~IsSome(parse_usize(call.section))
    /\ IsSome(call.result)
    /\ Unwrap(call.result).text = call.section
    /\ \E h \in HeadingSet :
         /\ h.line_number < Unwrap(call.result).line_number
         /\ h.text # call.section
         /\ contains(to_lowercase(h.text), to_lowercase(call.section))

\* C6: extract_section returns a string for every start and end: a zero or
\* out-of-range start is taken as line 1 and an out-of-range end as the
\* line count.
C6_ExtractNeverFails ==
    call.op = "extract_section" =>
        LET total == Len(lines)
            first == IF call.start = 0 \/ call.start > total THEN 1 ELSE call.start
            last == IF ~IsSome(call.end) \/ Unwrap(call.end) > total
                    THEN total ELSE Unwrap(call.end) - 1
        IN  /\ ~call.result.panicked
            /\ call.result.value = join(SubSeq(lines, first, last), <<"\n">>)

\* str::split('\n'): the pieces between the newlines, at least one
RECURSIVE SplitFrom(_, _, _)
SplitFrom(s, i, cur) ==
    IF i > Len(s) THEN <<cur>>
    ELSE IF s[i] = "\n" THEN <<cur>> \o SplitFrom(s, i + 1, <<>>)
    ELSE SplitFrom(s, i + 1, Append(cur, s[i]))

SplitNewline(s) == SplitFrom(s, 1, <<>>)

ReadFound == call.op = "read" /\ ~call.not_found

\* C5: for the range (start, end) of a heading, extract_section does not
\* fail and its result, split on newlines, is the source lines start ..
\* end-1 (end - start of them), or start .. total (total - start + 1 of
\* them) when end is absent.
C5_RoundTrip ==
    (ReadFound /\ ~call.summary /\ ~call.outline) =>
        LET start == call.range.start
            end == call.range.end
            total == Len(lines)
            pieces == SplitNewline(call.section_content.value)
        IN  /\ ~call.section_content.panicked
            /\ IF IsSome(end)
               THEN /\ Len(pieces) = Unwrap(end) - start
                    /\ pieces = SubSeq(lines, start, Unwrap(end) - 1)
               ELSE /\ Len(pieces) = total - start + 1
                    /\ pieces = SubSeq(lines, start, total)

\* a section of two lines or more, ended by a later heading, was extracted
\* from a document with CRLF line endings
C5_Witness ==
    /\ ReadFound /\ ~call.summary /\ ~call.outline
    /\ IsSome(call.range.end)
    /\ Unwrap(call.range.end) >= call.range.start + 2
    /\ \E i \in 1..Len(content) : content[i] = "\r"
    /\ ~call.section_content.panicked

IsPrefix(a, b) == Len(a) <= Len(b) /\ SubSeq(b, 1, Len(a)) = a

\* C7: in the summary of a section, a first subsection S and an end that
\* are both present satisfy S.line_number < end, and the intro is a prefix,
\* line for line, of the section.
C7_IntroInsideSection ==
    (ReadFound /\ call.summary) =>
        LET S == call.first_sub
            end == call.range.end
            section == extract_section(content, call.range.start, end)
        IN  /\ (IsSome(S) /\ IsSome(end)) => Unwrap(S).line_number < Unwrap(end)
            /\ ~call.intro.panicked /\ ~section.panicked
            /\ IsPrefix(SplitNewline(call.intro.value), SplitNewline(section.value))

\* the text print_outline writes for the headings of a set, in line order
RECURSIVE EntriesOf(_)
EntriesOf(S) ==
    IF S = {} THEN <<>>
    ELSE format_outline_entry(Earliest(S)) \o <<"\n">> \o EntriesOf(S \ {Earliest(S)})

\* C9: get_subsections returns exactly the headings from line start on,
\* before end when there is one, of level up to max_depth, in document
\* order (the heading on line start among them); the summary of read lists
\* the same headings but for the section's own.
C9_Subsections ==
    /\ call.op = "get_subsections" =>
         LET Wanted == {h \in HeadingSet :
                          /\ h.line_number >= call.start
                          /\ IsSome(call.end) => h.line_number < Unwrap(call.end)
                          /\ h.level <= call.max_depth}
             r == call.result
         IN  /\ {r[k] : k \in 1..Len(r)} = Wanted
             /\ Len(r) = Cardinality(Wanted)
             /\ \A k \in 1..(Len(r) - 1) : r[k].line_number < r[k + 1].line_number
    /\ (ReadFound /\ call.summary) =>
         LET H == Unwrap(call.heading)
             end == call.range.end
             Wanted == {h \in HeadingSet :
                          /\ h.line_number > H.line_number
                          /\ IsSome(end) => h.line_number < Unwrap(end)
                          /\ h.level <= call.depth}
         IN  call.listed = EntriesOf(Wanted)

\* the heading on line start is returned, one heading is left out for its
\* depth and one for lying at end
C9_Witness ==
    /\ call.op = "get_subsections"
    /\ IsSome(call.end)
    /\ \E k \in 1..Len(call.result) : call.result[k].line_number = call.start
    /\ \E h \in HeadingSet :
         /\ h.line_number > call.start /\ h.line_number < Unwrap(call.end)
         /\ h.level > call.max_depth
    /\ \E h \in HeadingSet :
         h.line_number = Unwrap(call.end) /\ h.level <= call.max_depth

====
